---- MODULE Spec2Model ----
(***************************************************************************)
(* A model of the sample pairing / differential expression logic of        *)
(* data_sources/tcga (ExpressionManager, TCGA._locate_files), of the       *)
(* memoized GSVA scoring function (signature_scoring/scoring_functions/    *)
(* gsva.py) and of CodingMutationLayer.normalize_by_protein_length         *)
(* (multi_view/layers.py).                                                 *)
(*                                                                         *)
(* Four independent components share the module; each has its own          *)
(* specification (SpecExpression, SpecGsva, SpecScore, SpecLocate,         *)
(* SpecLayer) that leaves the variables of the other components alone.     *)
(***************************************************************************)
EXTENDS Integers, Sequences, FiniteSets, Bags, TLC

\* ------------------------------------------------------------------ bounds
NumParticipants == 2

\* the largest limit_to tried
MaxLimit == 2

\* the number of distinct expression data sets
NumData == 2

\* the number of runs of the R engine a process makes
MaxRuns == 2

\* the number of files per participant the glob can find
NumVials == 2

\* the number of proteins a mutation layer has columns for
NumProteins == 2

\* the default of the permutations argument of gsva
DefaultPermutations == 1000

Participants == 1..NumParticipants

\* ------------------------------------------------------- TCGA barcodes
\* A column name of an expression table is a TCGA barcode; the model keeps its
\* participant field and its two-digit sample code: <<participant, code>>.
\* Codes 1 (primary tumor) and 6 (metastatic) are both tumor samples, 11 is a
\* normal sample.
SampleCodes == {1, 6, 11}

SampleTypes == {"tumor", "normal", "control"}

\* TCGABarcode.sample_type: the name of the range the sample code falls in.
SampleType(column) ==
    CASE column[2] \in 1..9   -> "tumor"
      [] column[2] \in 10..19 -> "normal"
      [] column[2] \in 20..29 -> "control"

\* TCGABarcode.participant: the participant part of the barcode, itself a
\* (shorter) barcode string.
Participant(barcode) == <<barcode[1]>>

AllColumns == Participants \X SampleCodes

VARIABLES
    columns,       \* ExpressionManager.columns: the sample columns of the table
    index_empty,   \* TRUE when the table has no rows (no genes)
    call           \* the last ExpressionManager call: arguments and outcome

exprVars == <<columns, index_empty, call>>

VARIABLES
    GSVA_CACHE,                \* gsva.py GSVA_CACHE: [spawned, entries]
    process_specific_counter,  \* gsva.py process_specific_counter
    pc,                        \* where gsva_score stands: "idle" or "compound"
    pending,                   \* the gsva_score call under way: scorer, arguments
    last,                      \* the last gsva call: arguments and outcome
    completed,                 \* history: keys a gsva call with _cache=True returned for
    disease_keys               \* history: keys of the expressions passed as disease

gsvaVars == <<GSVA_CACHE, process_specific_counter, pc, pending, last,
              completed, disease_keys>>

VARIABLES
    located,               \* the files the glob of _locate_files finds
    loc_pc,                \* where _locate_files stands: "idle", "loop" or "done"
    loc_todo,              \* the files the loop has still to visit
    loc_limit,             \* limit_to ({} for None)
    paths_by_participant,  \* the dict _locate_files builds
    loc_outcome            \* "none", "returned" or "ValueError"

locateVars == <<located, loc_pc, loc_todo, loc_limit, paths_by_participant,
                loc_outcome>>

VARIABLES
    layer_columns,  \* the columns (proteins) of the CodingMutationLayer
    lookup,         \* protein_sequences: what average_length(protein) does
    norm            \* the last normalize_by_protein_length call

layerVars == <<layer_columns, lookup, norm>>

vars == <<exprVars, gsvaVars, locateVars, layerVars>>

\* ------------------------------------------- values before any call is made
NoAdditional == [given |-> FALSE, columns |-> {}]

NoCall ==
    [op |-> "none", type_one |-> "None", type_two |-> "None", limit_to |-> 0,
     spread |-> "None", only_paired |-> FALSE, additional |-> NoAdditional,
     outcome |-> "none", value |-> "None", result |-> EmptyBag,
     cases |-> {}, controls |-> {}, warnings |-> {}]

EmptyDict == [k \in {} |-> 0]

NoResult == [key |-> <<0, "None", "None">>, run |-> 0, filtered |-> FALSE]

NoExpression == [kind |-> "None", data |-> 0]

NoScorer ==
    [gene_sets |-> "None", method |-> "None", single_sample |-> FALSE,
     permutations |-> 0]

NoPending ==
    [scorer |-> NoScorer, disease |-> NoExpression, compound |-> NoExpression]

NoGsva ==
    [op |-> "none", key |-> <<0, "None", "None">>, cache_flag |-> FALSE,
     single_sample |-> FALSE, permutations |-> 0, outcome |-> "none",
     consulted |-> FALSE, invoked |-> FALSE, result |-> NoResult]

Proteins == 1..NumProteins

NoNorm ==
    [op |-> "none", recover |-> FALSE, warnings |-> {}, failed |-> 0,
     result |-> EmptyDict]

IdleExpression == <<{}, FALSE, NoCall>>

IdleGsva ==
    <<[spawned |-> FALSE, entries |-> EmptyDict], 0, "idle", NoPending, NoGsva,
      {}, {}>>

IdleLocate == <<{}, "idle", {}, {}, EmptyDict, "none">>

IdleLayer == <<{}, [p \in Proteins |-> "length"], NoNorm>>

\* ============================================================ ExpressionManager

Min(a, b) == IF a < b THEN a ELSE b

\* ExpressionManager.samples_by_participant: the columns grouped by the
\* participant of their barcode.
SamplesByParticipant(cols) ==
    [p \in {Participant(c) : c \in cols} |-> {c \in cols : Participant(c) = p}]

\* ExpressionManager.ParticipantSamples.by_type: one set of samples per known
\* sample type.
ByType(samples) ==
    [t \in SampleTypes |-> {c \in samples : SampleType(c) = t}]

\* list(samples)[:limit_to]: a set has no order of its own, so any subset of
\* the right size can be the slice.
Slices(samples, limit_to) ==
    {s \in SUBSET samples : Cardinality(s) = Min(limit_to, Cardinality(samples))}

\* A participant with samples of only one of the two types is taken too.
HasEitherType(samples_by_type, type_one, type_two) ==
    samples_by_type[type_one] # {} \/ samples_by_type[type_two] # {}

\* if samples_by_type[type_one] and samples_by_type[type_two]
HasBothTypes(samples_by_type, type_one, type_two) ==
    samples_by_type[type_one] # {} /\ samples_by_type[type_two] # {}

\* The body of the loop of ExpressionManager.paired for one participant: the
\* possible outcomes, each an AssertionError or the bag of columns appended
\* to `paired`.  limit_to = 0 stands for a falsy limit_to (None or 0), spread =
\* "None" for spread=None.
PairedOfParticipant(samples, type_one, type_two, limit_to, spread) ==
    LET samples_by_type == ByType(samples)
    IN  IF ~HasBothTypes(samples_by_type, type_one, type_two)
        THEN {[error |-> FALSE, add |-> EmptyBag]}
        ELSE IF limit_to > 0
        THEN IF type_one = type_two
             THEN {[error |-> FALSE, add |-> SetToBag(s) (+) SetToBag(s)] :
                       s \in Slices(samples_by_type[type_one], limit_to)}
             ELSE {[error |-> FALSE, add |-> SetToBag(s[1]) (+) SetToBag(s[2])] :
                       s \in Slices(samples_by_type[type_one], limit_to)
                             \X Slices(samples_by_type[type_two], limit_to)}
        ELSE IF spread # "None"
        THEN IF spread \notin {type_one, type_two}
             THEN {[error |-> TRUE, add |-> EmptyBag]}
             ELSE LET not_spread == IF spread = type_one THEN type_two ELSE type_one
                      cases == samples_by_type[not_spread]
                      controls == samples_by_type[spread]
                  IN  IF Cardinality(controls) # 1
                      THEN {[error |-> TRUE, add |-> EmptyBag]}
                      ELSE \* the control once for every case
                           {[error |-> FALSE,
                             add |-> IF cases = {}
                                     THEN EmptyBag
                                     ELSE SetToBag(cases)
                                          (+) [c \in controls |->
                                                  Cardinality(cases)]]}
        ELSE {[error |-> FALSE, add |-> SetToBag(samples)]}

\* The loop of ExpressionManager.paired over the participants still to visit:
\* the bags `paired` can hold at the end, or an error as soon as one
\* participant fails an assertion.
RECURSIVE PairedLoop(_, _, _, _, _, _)
PairedLoop(by_participant, todo, type_one, type_two, limit_to, spread) ==
    IF todo = {}
    THEN {[error |-> FALSE, add |-> EmptyBag]}
    ELSE LET p == CHOOSE q \in todo : TRUE
             here == PairedOfParticipant(by_participant[p], type_one, type_two,
                                         limit_to, spread)
             rest == PairedLoop(by_participant, todo \ {p}, type_one, type_two,
                                limit_to, spread)
         IN  IF (\E h \in here : h.error) \/ (\E r \in rest : r.error)
             THEN {[error |-> TRUE, add |-> EmptyBag]}
             ELSE {[error |-> FALSE, add |-> h.add (+) r.add] :
                       h \in here, r \in rest}

\* ExpressionManager.paired: the possible outcomes of one call.  The result is
\* the bag of the columns selected (a column selected twice appears twice in
\* the returned table); the order of the columns is left out.
Paired(cols, type_one, type_two, limit_to, spread) ==
    IF spread # "None" /\ limit_to > 0
    THEN {[outcome |-> "AssertionError", result |-> EmptyBag]}
    ELSE LET by_participant == SamplesByParticipant(cols)
         IN  {[outcome |-> IF r.error THEN "AssertionError" ELSE "returned",
               result |-> r.add] :
                  r \in PairedLoop(by_participant, DOMAIN by_participant,
                                   type_one, type_two, limit_to, spread)}

\* paired(case_, control_) as ExpressionManager.split calls it: no limit, no
\* spread; it returns a table without duplicated columns.
PairedPlain(cols, type_one, type_two) ==
    BagToSet((CHOOSE r \in Paired(cols, type_one, type_two, 0, "None") : TRUE).result)

\* DataFrame.empty: no column or no row.
FrameEmpty(cols, no_rows) == cols = {} \/ no_rows

\* ExpressionManager.split: None when the table to split is empty, else the
\* pair (cases, controls).
Split(cols, no_rows, case_, control_, only_paired) ==
    LET paired == IF only_paired THEN PairedPlain(cols, case_, control_) ELSE cols
    IN  IF FrameEmpty(paired, no_rows)
        THEN [none |-> TRUE, cases |-> {}, controls |-> {}]
        ELSE [none |-> FALSE,
              cases |-> {c \in paired : SampleType(c) = case_},
              controls |-> {c \in paired : SampleType(c) = control_}]

\* The control table after the additional_controls step of differential.
\* additional.given = FALSE stands for additional_controls=None; the
\* additional table has the genes of the expression table.
WithAdditionalControls(control, additional) ==
    IF ~additional.given THEN control
    ELSE IF control \ additional.columns # {}
    THEN control \cup additional.columns
    ELSE additional.columns

\* ExpressionManager.differential: the outcome of one call.  metric_fails says
\* whether the metric raises StatisticsError on these groups.
Differential(cols, no_rows, case_, control_, only_paired, additional, metric_fails) ==
    LET s == Split(cols, no_rows, case_, control_, only_paired)
        control == WithAdditionalControls(s.controls, additional)
    IN  IF s.none
        THEN \* case, control = None
             [outcome |-> "TypeError", value |-> "None", warnings |-> {},
              cases |-> {}, controls |-> {}]
        ELSE IF FrameEmpty(s.cases, no_rows) \/ FrameEmpty(control, no_rows)
        THEN [outcome |-> "returned", value |-> "None",
              warnings |-> {"Case or control is empty"},
              cases |-> s.cases, controls |-> control]
        ELSE IF metric_fails
        THEN [outcome |-> "returned", value |-> "None",
              warnings |-> {"Couldn't compute metric"},
              cases |-> s.cases, controls |-> control]
        ELSE [outcome |-> "returned", value |-> "signature", warnings |-> {},
              cases |-> s.cases, controls |-> control]

\* The additional_controls tables tried: none, an empty table, a table of one
\* control sample of a participant outside the expression table, a table that
\* also holds the first participant's normal sample.
AdditionalControls ==
    {[given |-> FALSE, columns |-> {}],
     [given |-> TRUE, columns |-> {}],
     [given |-> TRUE, columns |-> {<<0, 11>>}],
     [given |-> TRUE, columns |-> {<<0, 11>>, <<1, 11>>}]}

\* A table as loaded by TCGAExpression.data: any set of sample columns, with
\* or without rows.
InitExpression ==
    /\ columns \in SUBSET AllColumns
    /\ index_empty \in BOOLEAN
    /\ call = NoCall
    /\ GSVA_CACHE = IdleGsva[1]
    /\ process_specific_counter = IdleGsva[2]
    /\ pc = IdleGsva[3]
    /\ pending = IdleGsva[4]
    /\ last = IdleGsva[5]
    /\ completed = IdleGsva[6]
    /\ disease_keys = IdleGsva[7]
    /\ located = IdleLocate[1]
    /\ loc_pc = IdleLocate[2]
    /\ loc_todo = IdleLocate[3]
    /\ loc_limit = IdleLocate[4]
    /\ paths_by_participant = IdleLocate[5]
    /\ loc_outcome = IdleLocate[6]
    /\ layer_columns = IdleLayer[1]
    /\ lookup = IdleLayer[2]
    /\ norm = IdleLayer[3]

\* paired(type_one, type_two, limit_to, spread)
PairedCall ==
    /\ call.op = "none"
    /\ \E type_one \in SampleTypes, type_two \in SampleTypes,
       limit_to \in 0..MaxLimit, spread \in {"None"} \cup SampleTypes :
        \E r \in Paired(columns, type_one, type_two, limit_to, spread) :
            /\ call' = [NoCall EXCEPT !.op = "paired",
                                      !.type_one = type_one,
                                      !.type_two = type_two,
                                      !.limit_to = limit_to,
                                      !.spread = spread,
                                      !.outcome = r.outcome,
                                      !.value = IF r.outcome = "returned"
                                                THEN "frame" ELSE "None",
                                      !.result = r.result]
            /\ UNCHANGED <<columns, index_empty, gsvaVars, locateVars, layerVars>>

\* split(case_, control_, only_paired)
SplitCall ==
    /\ call.op = "none"
    /\ \E case_ \in SampleTypes, control_ \in SampleTypes, only_paired \in BOOLEAN :
        LET s == Split(columns, index_empty, case_, control_, only_paired)
        IN  /\ call' = [NoCall EXCEPT !.op = "split",
                                      !.type_one = case_,
                                      !.type_two = control_,
                                      !.only_paired = only_paired,
                                      !.outcome = "returned",
                                      !.value = IF s.none THEN "None" ELSE "pair",
                                      !.cases = s.cases,
                                      !.controls = s.controls]
            /\ UNCHANGED <<columns, index_empty, gsvaVars, locateVars, layerVars>>

\* differential(case_, control_, only_paired=..., additional_controls=...)
DifferentialCall ==
    /\ call.op = "none"
    /\ \E case_ \in SampleTypes, control_ \in SampleTypes, only_paired \in BOOLEAN,
       additional \in AdditionalControls, metric_fails \in BOOLEAN :
        LET d == Differential(columns, index_empty, case_, control_, only_paired,
                              additional, metric_fails)
        IN  /\ call' = [NoCall EXCEPT !.op = "differential",
                                      !.type_one = case_,
                                      !.type_two = control_,
                                      !.only_paired = only_paired,
                                      !.additional = additional,
                                      !.outcome = d.outcome,
                                      !.value = d.value,
                                      !.cases = d.cases,
                                      !.controls = d.controls,
                                      !.warnings = d.warnings]
            /\ UNCHANGED <<columns, index_empty, gsvaVars, locateVars, layerVars>>

NextExpression == PairedCall \/ SplitCall \/ DifferentialCall

\* ======================================================================= gsva

Kinds == {"Profile", "ExpressionWithControls"}

Expressions == [kind : Kinds, data : 1..NumData]

Methods == {"gsva"}

GeneSets == {"c2.cp.kegg"}

\* permutations: 0 stands for a falsy value (None or 0), the other value is
\* the declared default of gsva.
PermutationValues == {0, DefaultPermutations}

\* expression.hashable: a hashable form of the data the expression holds.
Hashable(expression) == expression.data

\* The cache key gsva computes.
Key(expression, method, gene_sets) == <<Hashable(expression), method, gene_sets>>

DictPut(d, k, v) == [x \in DOMAIN d \cup {k} |-> IF x = k THEN v ELSE d[x]]

\* multiprocess_cache_manager.respawn_cache_if_needed: the cache is created
\* when the process has none, and kept otherwise.
RespawnCacheIfNeeded(cache) ==
    IF cache.spawned THEN cache ELSE [spawned |-> TRUE, entries |-> EmptyDict]

\* The check of the arguments is left out.
PermutationsUnchecked(single_sample, permutations) == FALSE

\* if not single_sample and permutations
PermutationsUnsupported(single_sample, permutations) ==
    ~single_sample /\ permutations # 0

\* The cache is never found to hold the key.
CacheNeverHit(cache, key) == FALSE

\* if key in GSVA_CACHE
CacheHit(cache, key) == key \in DOMAIN cache.entries

\* The result is stored whatever _cache says.
StoreResultAlways(cache, key, result, cache_flag) ==
    [cache EXCEPT !.entries = DictPut(cache.entries, key, result)]

\* if _cache: GSVA_CACHE[key] = result
StoreResult(cache, key, result, cache_flag) ==
    IF cache_flag
    THEN [cache EXCEPT !.entries = DictPut(cache.entries, key, result)]
    ELSE cache

\* gsva(expression, gene_sets, method, single_sample, permutations, _cache):
\* the outcome of one call made with the cache `cache` and the counter
\* `counter`.  engine_ok says whether the R code (GSVA, limma) runs through.
\* A result is named by its key and by the engine run that produced it.
\* mx_diff only reaches the R code and is left out.
Gsva(cache, counter, expression, gene_sets, method, single_sample, permutations, cache_flag, engine_ok) ==
    LET key == Key(expression, method, gene_sets)
        base == [key |-> key, cache |-> cache, counter |-> counter,
                 outcome |-> "returned", consulted |-> FALSE, invoked |-> FALSE,
                 result |-> NoResult]
    IN  IF PermutationsUnsupported(single_sample, permutations)
        THEN \* raise warn(...): warn returns None, raising None is a TypeError
             [base EXCEPT !.outcome = "TypeError"]
        ELSE IF ~cache.spawned
        THEN \* key in None
             [base EXCEPT !.outcome = "TypeError", !.consulted = TRUE]
        ELSE IF CacheHit(cache, key)
        THEN [base EXCEPT !.consulted = TRUE, !.result = cache.entries[key]]
        ELSE IF single_sample /\ expression.kind # "Profile"
        THEN [base EXCEPT !.outcome = "AssertionError", !.consulted = TRUE]
        ELSE IF ~engine_ok
        THEN [base EXCEPT !.outcome = "RRuntimeError", !.consulted = TRUE,
                          !.invoked = TRUE]
        ELSE LET result == [key |-> key, run |-> counter + 1, filtered |-> FALSE]
             IN  [base EXCEPT !.consulted = TRUE, !.invoked = TRUE,
                              !.result = result,
                              !.counter = counter + 1,
                              !.cache = StoreResult(cache, key, result,
                                                       cache_flag)]

\* disease_gene_sets.drop(..., inplace=True) in gsva_score: the rows above the
\* q-value cutoff leave the returned table, and the cached table too when the
\* cache handed out the stored object itself.
DropInPlace(cache, key, shared) ==
    IF shared /\ cache.spawned /\ key \in DOMAIN cache.entries
    THEN [cache EXCEPT !.entries[key].filtered = TRUE]
    ELSE cache

LastOf(r, op, single_sample, permutations, cache_flag) ==
    [op |-> op, key |-> r.key, cache_flag |-> cache_flag,
     single_sample |-> single_sample, permutations |-> permutations,
     outcome |-> r.outcome, consulted |-> r.consulted, invoked |-> r.invoked,
     result |-> r.result]

\* The scorers create_gsva_scorer can make; permutations defaults to None.
Scorers ==
    [gene_sets : GeneSets, method : Methods, single_sample : BOOLEAN,
     permutations : PermutationValues]

\* input = Profile if single_sample else ExpressionWithControls: the
\* expressions a scorer is made for.
ScorerInput(s) ==
    {e \in Expressions :
        e.kind = IF s.single_sample THEN "Profile" ELSE "ExpressionWithControls"}

\* The module as imported: GSVA_CACHE is None until the cache manager spawns
\* it, which add_cache may or may not do at once.
InitGsva ==
    /\ GSVA_CACHE \in {[spawned |-> b, entries |-> EmptyDict] : b \in BOOLEAN}
    /\ process_specific_counter = 0
    /\ pc = "idle"
    /\ pending = NoPending
    /\ last = NoGsva
    /\ completed = {}
    /\ disease_keys = {}
    /\ columns = IdleExpression[1]
    /\ index_empty = IdleExpression[2]
    /\ call = IdleExpression[3]
    /\ located = IdleLocate[1]
    /\ loc_pc = IdleLocate[2]
    /\ loc_todo = IdleLocate[3]
    /\ loc_limit = IdleLocate[4]
    /\ paths_by_participant = IdleLocate[5]
    /\ loc_outcome = IdleLocate[6]
    /\ layer_columns = IdleLayer[1]
    /\ lookup = IdleLayer[2]
    /\ norm = IdleLayer[3]

\* A direct call of gsva.
GsvaCall ==
    /\ pc = "idle"
    /\ \E expression \in Expressions, gene_sets \in GeneSets, method \in Methods,
          single_sample \in BOOLEAN, permutations \in PermutationValues,
          cache_flag \in BOOLEAN, engine_ok \in BOOLEAN :
        LET r == Gsva(GSVA_CACHE, process_specific_counter, expression, gene_sets,
                      method, single_sample, permutations, cache_flag, engine_ok)
        IN  /\ r.invoked => process_specific_counter < MaxRuns
            /\ GSVA_CACHE' = r.cache
            /\ process_specific_counter' = r.counter
            /\ last' = LastOf(r, "gsva", single_sample, permutations, cache_flag)
            /\ completed' = IF r.outcome = "returned" /\ cache_flag
                            THEN completed \cup {r.key} ELSE completed
            /\ UNCHANGED <<pc, pending, disease_keys>>
    /\ UNCHANGED <<exprVars, locateVars, layerVars>>

\* gsva_score(disease, compound) of a scorer made by create_gsva_scorer is
\* entered: the cache is respawned if needed.
ScoreBegin ==
    /\ pc = "idle"
    /\ \E scorer \in Scorers :
        \E disease \in ScorerInput(scorer), compound \in ScorerInput(scorer) :
            /\ GSVA_CACHE' = RespawnCacheIfNeeded(GSVA_CACHE)
            /\ pending' = [scorer |-> scorer, disease |-> disease,
                           compound |-> compound]
            /\ disease_keys' = disease_keys
                               \cup {Key(disease, scorer.method, scorer.gene_sets)}
            /\ pc' = "disease"
    /\ UNCHANGED <<process_specific_counter, last, completed>>
    /\ UNCHANGED <<exprVars, locateVars, layerVars>>

\* gsva_score: gsva scores the disease, with the cache; an error of gsva ends
\* gsva_score.
ScoreDisease ==
    /\ pc = "disease"
    /\ \E engine_ok \in BOOLEAN :
        LET r == Gsva(GSVA_CACHE, process_specific_counter, pending.disease,
                      pending.scorer.gene_sets, pending.scorer.method,
                      pending.scorer.single_sample,
                      pending.scorer.permutations, TRUE, engine_ok)
        IN  /\ r.invoked => process_specific_counter < MaxRuns
            /\ GSVA_CACHE' = r.cache
            /\ process_specific_counter' = r.counter
            /\ last' = LastOf(r, "gsva", pending.scorer.single_sample,
                              pending.scorer.permutations, TRUE)
            /\ IF r.outcome = "returned"
               THEN /\ completed' = completed \cup {r.key}
                    /\ pc' = "filter"
                    /\ UNCHANGED pending
               ELSE /\ pc' = "idle"
                    /\ pending' = NoPending
                    /\ UNCHANGED completed
    /\ UNCHANGED disease_keys
    /\ UNCHANGED <<exprVars, locateVars, layerVars>>

\* gsva_score: the disease gene sets above the q-value cutoff are dropped in
\* place.  Whether the table gsva returned is the stored object itself or a
\* copy of it is up to the dict the cache manager made.
ScoreFilter ==
    /\ pc = "filter"
    /\ \E shares_object \in BOOLEAN :
        GSVA_CACHE' = DropInPlace(GSVA_CACHE,
                                 Key(pending.disease, pending.scorer.method,
                                     pending.scorer.gene_sets),
                                 shares_object)
    /\ pc' = "compound"
    /\ UNCHANGED <<process_specific_counter, pending, last, completed,
                   disease_keys>>
    /\ UNCHANGED <<exprVars, locateVars, layerVars>>

\* The rest of gsva_score: gsva scores the compound with _cache=False, the two
\* results are combined and the mean score returned.
ScoreCompound ==
    /\ pc = "compound"
    /\ \E engine_ok \in BOOLEAN :
        LET r == Gsva(GSVA_CACHE, process_specific_counter, pending.compound,
                      pending.scorer.gene_sets, pending.scorer.method,
                      pending.scorer.single_sample,
                      pending.scorer.permutations, FALSE, engine_ok)
        IN  /\ r.invoked => process_specific_counter < MaxRuns
            /\ GSVA_CACHE' = r.cache
            /\ process_specific_counter' = r.counter
            /\ last' = LastOf(r, "gsva", pending.scorer.single_sample,
                              pending.scorer.permutations, FALSE)
            /\ pc' = "idle"
            /\ pending' = NoPending
    /\ UNCHANGED <<completed, disease_keys>>
    /\ UNCHANGED <<exprVars, locateVars, layerVars>>

NextScore == ScoreBegin \/ ScoreDisease \/ ScoreFilter \/ ScoreCompound

NextGsva == GsvaCall \/ ScoreBegin \/ ScoreDisease \/ ScoreFilter \/ ScoreCompound

\* ============================================================ TCGA._locate_files

\* A file the glob finds is named <aliquot barcode>.maf.txt; the barcode is
\* <<participant, sample code, vial>>, the sample code always 01.
Files == {<<p, 1, v, "maf.txt">> : p \in Participants, v \in 1..NumVials}

\* TCGABarcode(path.name[:-8]): the file name without its extension.
Aliquot(path) == SubSeq(path, 1, Len(path) - 1)

\* limit_to as TCGA.mutations passes it: participants; {} stands for None (or
\* an empty list).
Limits == SUBSET {<<p>> : p \in Participants}

InitLocate ==
    /\ located \in SUBSET Files
    /\ loc_pc = "idle"
    /\ loc_todo = {}
    /\ loc_limit = {}
    /\ paths_by_participant = EmptyDict
    /\ loc_outcome = "none"
    /\ columns = IdleExpression[1]
    /\ index_empty = IdleExpression[2]
    /\ call = IdleExpression[3]
    /\ GSVA_CACHE = IdleGsva[1]
    /\ process_specific_counter = IdleGsva[2]
    /\ pc = IdleGsva[3]
    /\ pending = IdleGsva[4]
    /\ last = IdleGsva[5]
    /\ completed = IdleGsva[6]
    /\ disease_keys = IdleGsva[7]
    /\ layer_columns = IdleLayer[1]
    /\ lookup = IdleLayer[2]
    /\ norm = IdleLayer[3]

\* _locate_files is called: the dict is empty, the glob lists the files.
LocateFiles ==
    /\ loc_pc \in {"idle", "done"}
    /\ \E limit_to \in Limits : loc_limit' = limit_to
    /\ loc_todo' = located
    /\ paths_by_participant' = EmptyDict
    /\ loc_outcome' = "none"
    /\ loc_pc' = "loop"
    /\ UNCHANGED located
    /\ UNCHANGED <<exprVars, gsvaVars, layerVars>>

\* The body of the loop for one path: what becomes of the dict, and whether
\* ValueError is raised.
LocateVisit(paths, path, limit_to) ==
    LET aliquot == Aliquot(path)
        participant == Participant(aliquot)
    IN  IF participant \in DOMAIN paths
        THEN [raised |-> TRUE, paths |-> paths]
        ELSE IF limit_to # {} /\ participant \notin limit_to
        THEN [raised |-> FALSE, paths |-> paths]
        ELSE [raised |-> FALSE, paths |-> DictPut(paths, aliquot, path)]

\* One turn of the loop; glob returns the paths in arbitrary order.
LocateStep ==
    /\ loc_pc = "loop"
    /\ \E path \in loc_todo :
        LET v == LocateVisit(paths_by_participant, path, loc_limit)
        IN  /\ paths_by_participant' = v.paths
            /\ loc_todo' = loc_todo \ {path}
            /\ loc_pc' = IF v.raised THEN "done" ELSE "loop"
            /\ loc_outcome' = IF v.raised THEN "ValueError" ELSE "none"
    /\ UNCHANGED <<located, loc_limit>>
    /\ UNCHANGED <<exprVars, gsvaVars, layerVars>>

\* return paths_by_participant
LocateReturn ==
    /\ loc_pc = "loop"
    /\ loc_todo = {}
    /\ loc_pc' = "done"
    /\ loc_outcome' = "returned"
    /\ UNCHANGED <<located, loc_todo, loc_limit, paths_by_participant>>
    /\ UNCHANGED <<exprVars, gsvaVars, layerVars>>

NextLocate == LocateFiles \/ LocateStep \/ LocateReturn

\* ============================================= CodingMutationLayer normalization

\* What protein_sequences.average_length(protein) does for a protein: it
\* returns a length, or raises KeyError or StatisticsError.
Lookups == {"length", "KeyError", "StatisticsError"}

\* normalize(column), the function normalize_by_protein_length applies to
\* every column.
Normalize(protein, lengths, recover) ==
    IF lengths[protein] = "length"
    THEN [failed |-> 0, value |-> "column / protein_length"]
    ELSE [failed |-> 1,
          value |-> IF recover THEN "column / average_length" ELSE "column * nan"]

RECURSIVE SumFailed(_, _, _)
SumFailed(cols, lengths, recover) ==
    IF cols = {} THEN 0
    ELSE LET c == CHOOSE x \in cols : TRUE
         IN  Normalize(c, lengths, recover).failed
             + SumFailed(cols \ {c}, lengths, recover)

\* normalize_by_protein_length(recover): failed is tested for the warning
\* before apply() has called normalize on any column.
NormalizeByProteinLength(cols, lengths, recover) ==
    LET failed_when_tested == 0
    IN  [warnings |-> IF failed_when_tested # 0
                      THEN {[message |-> "exact lengths were not available",
                             proteins |-> failed_when_tested]}
                      ELSE {},
         failed |-> SumFailed(cols, lengths, recover),
         result |-> [c \in cols |-> Normalize(c, lengths, recover).value]]

InitLayer ==
    /\ layer_columns \in SUBSET Proteins
    /\ lookup \in [Proteins -> Lookups]
    /\ norm = NoNorm
    /\ columns = IdleExpression[1]
    /\ index_empty = IdleExpression[2]
    /\ call = IdleExpression[3]
    /\ GSVA_CACHE = IdleGsva[1]
    /\ process_specific_counter = IdleGsva[2]
    /\ pc = IdleGsva[3]
    /\ pending = IdleGsva[4]
    /\ last = IdleGsva[5]
    /\ completed = IdleGsva[6]
    /\ disease_keys = IdleGsva[7]
    /\ located = IdleLocate[1]
    /\ loc_pc = IdleLocate[2]
    /\ loc_todo = IdleLocate[3]
    /\ loc_limit = IdleLocate[4]
    /\ paths_by_participant = IdleLocate[5]
    /\ loc_outcome = IdleLocate[6]

NormalizeCall ==
    /\ \E recover \in BOOLEAN :
        LET n == NormalizeByProteinLength(layer_columns, lookup, recover)
        IN  norm' = [op |-> "normalize", recover |-> recover,
                     warnings |-> n.warnings, failed |-> n.failed,
                     result |-> n.result]
    /\ UNCHANGED <<layer_columns, lookup>>
    /\ UNCHANGED <<exprVars, gsvaVars, locateVars>>

NextLayer == NormalizeCall

\* ============================================================== specifications

SpecExpression == InitExpression /\ [][NextExpression]_vars

\* any sequence of gsva and gsva_score calls
SpecGsva == InitGsva /\ [][NextGsva]_vars

\* any sequence of gsva_score calls
SpecScore == InitGsva /\ [][NextScore]_vars

SpecLocate == InitLocate /\ [][NextLocate]_vars

SpecLayer == InitLayer /\ [][NextLayer]_vars

\* ====================================================================== claims

\* C1: paired(type_one, type_two) without limit_to and without spread returns,
\* for every table, exactly the sample columns of the participants that have
\* at least one sample of type_one and at least one sample of type_two.
C1_PairedMatchesPerParticipant ==
    (call.op = "paired" /\ call.limit_to = 0 /\ call.spread = "None") =>
        /\ call.outcome = "returned"
        /\ BagToSet(call.result) \subseteq columns
        /\ \A c \in columns :
               c \in BagToSet(call.result)
               <=> /\ \E a \in columns :
                         a[1] = c[1] /\ SampleType(a) = call.type_one
                   /\ \E b \in columns :
                         b[1] = c[1] /\ SampleType(b) = call.type_two

\* A plain paired call of two different types that kept the samples of one
\* participant and left out those of another.
C1_Witness ==
    /\ call.op = "paired" /\ call.limit_to = 0 /\ call.spread = "None"
    /\ call.type_one # call.type_two
    /\ call.outcome = "returned"
    /\ call.result # EmptyBag
    /\ \E c \in columns : c \notin BagToSet(call.result)

\* C2: paired called with a positive limit_to or with spread returns, when it
\* returns, as many type_one columns as type_two columns.
C2_EqualNumbersOfBothTypes ==
    LET count(t) ==
            BagCardinality([c \in {x \in BagToSet(call.result) : SampleType(x) = t}
                               |-> call.result[c]])
    IN  (/\ call.op = "paired"
         /\ call.limit_to > 0 \/ call.spread # "None"
         /\ call.outcome = "returned")
        => count(call.type_one) = count(call.type_two)

\* C3: once a gsva call with _cache=True has returned for a key, every later
\* gsva call with that key returns the stored result and does not run the
\* engine.
C3_EveryLaterCallReturnsStored ==
    [][\A k \in completed :
          ( /\ (pc = "idle" /\ pc' = "idle") \/ pc \in {"disease", "compound"}
            /\ last'.key = k )
          => /\ last'.outcome = "returned"
             /\ ~last'.invoked
             /\ k \in DOMAIN GSVA_CACHE.entries
             /\ last'.result = GSVA_CACHE.entries[k]
             /\ process_specific_counter' = process_specific_counter]_vars

\* C3 as amended: once a gsva call with _cache=True has returned for a key,
\* every later gsva call with that key whose arguments pass the permutations
\* check (single_sample, or no permutations) returns the stored result and does
\* not run the engine.
C3_LaterAcceptedCallReturnsStored ==
    [][\A k \in completed :
          ( /\ (pc = "idle" /\ pc' = "idle") \/ pc \in {"disease", "compound"}
            /\ last'.key = k
            /\ last'.single_sample \/ last'.permutations = 0 )
          => /\ last'.outcome = "returned"
             /\ ~last'.invoked
             /\ k \in DOMAIN GSVA_CACHE.entries
             /\ last'.result = GSVA_CACHE.entries[k]
             /\ process_specific_counter' = process_specific_counter]_vars

\* A gsva call for a key an earlier call completed was answered from the cache,
\* with the result of an earlier engine run.
C3_Witness ==
    /\ last.op = "gsva"
    /\ last.key \in completed
    /\ last.outcome = "returned"
    /\ last.consulted /\ ~last.invoked
    /\ last.result.run > 0
    /\ last.result.run <= process_specific_counter

\* C4: a gsva call with _cache=False leaves GSVA_CACHE unchanged, and after any
\* sequence of gsva_score calls every key of GSVA_CACHE is the key of an
\* expression passed as disease.
C4_OnlyDiseaseKeysCached ==
    [][/\ ( /\ (pc = "idle" /\ pc' = "idle") \/ pc \in {"disease", "compound"}
            /\ ~last'.cache_flag )
          => GSVA_CACHE' = GSVA_CACHE
       /\ DOMAIN GSVA_CACHE'.entries \subseteq disease_keys']_vars

\* gsva_score scored a compound with the engine while the cache held a
\* disease result, and the compound's key is not in the cache.
C4_Witness ==
    /\ last.op = "gsva" /\ ~last.cache_flag
    /\ last.outcome = "returned" /\ last.invoked
    /\ DOMAIN GSVA_CACHE.entries # {}
    /\ last.key \notin DOMAIN GSVA_CACHE.entries

\* C5: a gsva call with single_sample false and permutations non-zero ends in
\* an error before the cache is consulted or the engine run, and leaves
\* GSVA_CACHE and process_specific_counter unchanged.
C5_PermutationsRejected ==
    [][( /\ (pc = "idle" /\ pc' = "idle") \/ pc \in {"disease", "compound"}
         /\ ~last'.single_sample /\ last'.permutations # 0 )
       => /\ last'.outcome \notin {"returned", "none"}
          /\ ~last'.consulted
          /\ ~last'.invoked
          /\ GSVA_CACHE' = GSVA_CACHE
          /\ process_specific_counter' = process_specific_counter]_vars

\* A call with the declared defaults (single_sample false, 1000 permutations)
\* failed although the cache held a result for its key.
C5_Witness ==
    /\ last.op = "gsva"
    /\ ~last.single_sample /\ last.permutations = DefaultPermutations
    /\ last.outcome = "TypeError" /\ ~last.consulted
    /\ GSVA_CACHE.spawned
    /\ last.key \in DOMAIN GSVA_CACHE.entries

\* C6: differential returns None after the warning 'Case or control is empty'
\* whenever the case group or the control group it would compare is empty, and
\* fails with no other error then.
C6_EmptyGroupWarnsAndReturnsNone ==
    LET both(c) == /\ \E a \in columns :
                         a[1] = c[1] /\ SampleType(a) = call.type_one
                   /\ \E b \in columns :
                         b[1] = c[1] /\ SampleType(b) = call.type_two
        used == IF call.only_paired THEN {c \in columns : both(c)} ELSE columns
        case == {c \in used : SampleType(c) = call.type_one}
        control == WithAdditionalControls(
                       {c \in used : SampleType(c) = call.type_two},
                       call.additional)
    IN  (/\ call.op = "differential"
         /\ FrameEmpty(case, index_empty) \/ FrameEmpty(control, index_empty))
        => /\ call.outcome = "returned"
           /\ call.value = "None"
           /\ "Case or control is empty" \in call.warnings

\* C7: _locate_files raises ValueError whenever two of the located files belong
\* to the same participant, so a mapping it returns holds at most one file per
\* participant.
C7_OneFilePerParticipant ==
    /\ (loc_pc = "done"
        /\ \E f \in located, g \in located : f # g /\ f[1] = g[1])
       => loc_outcome = "ValueError"
    /\ loc_outcome = "returned"
       => \A a \in DOMAIN paths_by_participant, b \in DOMAIN paths_by_participant :
              a[1] = b[1] => a = b

\* C8: normalize_by_protein_length warns, with the number of proteins whose
\* length lookup failed, whenever a lookup failed, and gives such a column
\* divided by the average length when recover, all NaN otherwise.
C8_WarnsOfFailedLookups ==
    LET failing == {c \in layer_columns : lookup[c] # "length"}
    IN  norm.op = "normalize"
        => /\ failing # {}
              => \E w \in norm.warnings : w.proteins = Cardinality(failing)
           /\ \A c \in failing :
                 norm.result[c] = IF norm.recover
                                  THEN "column / average_length"
                                  ELSE "column * nan"

====
